---- MODULE Spec2Model ----
(***************************************************************************)
(* mapython: the annotation engine of mapython.draw.Map (the accumulated   *)
(* conflict_area, find_free_position, conflict_density, draw_text,         *)
(* draw_image, draw_text_on_line) and the layer driver                     *)
(* mapython.render.Renderer.                                               *)
(*                                                                         *)
(* Geometry lives on the integer lattice of canvas units.  A region is a   *)
(* union of closed axis-parallel boxes <<minx, miny, maxx, maxy>>; an area *)
(* is the number of unit cells covered.  shapely's buffer() is modelled by *)
(* growing a box on every side (its rounded corners are squared off).      *)
(***************************************************************************)
EXTENDS Integers, Sequences, FiniteSets, TLC

(***************************************************************************)
(* Program constants.                                                      *)
(***************************************************************************)
\* Map.__init__: max_size=800
MAX_SIZE == 800
\* the canvas of tests/test_map.py (bbox (11, 45.5, 11.232, 45.7), mercator):
\* height = max_size, width = ceil(max_size / y_diff * x_diff)
WIDTH == 650
HEIGHT == 800
\* Map.CONFLICT_MARGIN
CONFLICT_MARGIN == 3
\* Map.__init__: self.map_area.buffer(99999)
SEED_BUFFER == 99999
\* find_free_position(self, polygon, number=10, step=4)
DEFAULT_NUMBER == 10
DEFAULT_STEP == 4
\* conflict_density(self, x, y, radius=90)
DEFAULT_RADIUS == 90

(***************************************************************************)
(* Bounds of the model.                                                    *)
(***************************************************************************)
\* top-level calls on one Map (one render pass)
MaxCalls == 2
\* rows in the database of one render
MaxObjects == 3
\* the highest z-index the style sheet gives
MaxZ == 1

None == [kind |-> "None"]

VARIABLES
    conflict_area,  \* Map.conflict_area: [geom_type, geoms]
    oplog,          \* what the pass did to the surface and to conflict_area, in order
    pc,             \* where the active call stands
    frame,          \* locals of the active top-level call
    ffp,            \* locals of find_free_position
    calls,          \* number of top-level calls made so far
    db,             \* Renderer: the rows the database holds, in query order
    rpc,            \* Renderer.run: index of the step of run() that is next
    conflict_list,  \* Renderer.conflict_list (rows as indices into db)
    pending,        \* Renderer.conflicts: what its loop has still to visit
    iterating,      \* Renderer.conflicts: the loop has started
    draws,          \* the calls Renderer has issued to its Map, in order
    seg,            \* utils.linestring_text_optimal_segment: arguments and locals
    lay,            \* utils.iter_chars_on_line: arguments and locals
    coast,          \* utils.close_coastlines: arguments and locals
    gen,            \* scripts/generate_tiles.py: the job queue and the workers
    sheet           \* style.StyleSheet: its styles and the updates applied

mvars == <<conflict_area, oplog, pc, frame, ffp, calls>>
rvars == <<db, rpc, conflict_list, pending, iterating, draws>>
uvars == <<seg, lay, coast, gen, sheet>>
vars == <<mvars, rvars, uvars>>

(***************************************************************************)
(* shapely on boxes.                                                       *)
(***************************************************************************)
box(minx, miny, maxx, maxy) == <<minx, miny, maxx, maxy>>

Buffer(b, margin) == <<b[1] - margin, b[2] - margin, b[3] + margin, b[4] + margin>>

\* utils.translate_coords over polygon.exterior.coords, then Polygon(coords)
translate_coords(b, dx, dy) == <<b[1] + dx, b[2] + dy, b[3] + dx, b[4] + dy>>

\* closed sets: boxes that only touch do intersect
BoxIntersects(a, b) ==
    /\ a[1] <= b[3] /\ b[1] <= a[3]
    /\ a[2] <= b[4] /\ b[2] <= a[4]

Min(a, b) == IF a <= b THEN a ELSE b
Max(a, b) == IF a >= b THEN a ELSE b

\* two boxes whose union is one polygon: they share more than a point
BoxAdjacent(a, b) ==
    /\ BoxIntersects(a, b)
    /\ \/ Min(a[3], b[3]) > Max(a[1], b[1])
       \/ Min(a[4], b[4]) > Max(a[2], b[2])

AllBoxes(ca) == UNION ca.geoms

\* polygon.intersects(self.conflict_area)
Intersects(p, ca) == \E b \in AllBoxes(ca) : BoxIntersects(p, b)

\* the part of box b inside box p
Clip(b, p) == <<Max(b[1], p[1]), Max(b[2], p[2]), Min(b[3], p[3]), Min(b[4], p[4])>>

\* the intervals between neighbouring values of a set of coordinates
Intervals(coords) ==
    { iv \in coords \X coords :
        iv[1] < iv[2] /\ ~ \E m \in coords : iv[1] < m /\ m < iv[2] }

RECURSIVE SumOfAreas(_)
SumOfAreas(rects) ==
    IF rects = {} THEN 0
    ELSE LET r == CHOOSE r \in rects : TRUE
         IN (r[3] - r[1]) * (r[4] - r[2]) + SumOfAreas(rects \ {r})

\* polygon.intersection(self.conflict_area).area: the boxes of the region are
\* clipped to the polygon, and the covered cells of the grid their sides draw
\* are added up
IntersectionArea(p, ca) ==
    LET near == { Clip(b, p) : b \in { b \in AllBoxes(ca) : BoxIntersects(p, b) } }
        solid == { c \in near : c[1] < c[3] /\ c[2] < c[4] }
        xs == { c[1] : c \in solid } \cup { c[3] : c \in solid }
        ys == { c[2] : c \in solid } \cup { c[4] : c \in solid }
        grid == { <<ix[1], iy[1], ix[2], iy[2]>> : ix \in Intervals(xs), iy \in Intervals(ys) }
    IN SumOfAreas({ g \in grid :
                      \E c \in solid : c[1] <= g[1] /\ g[3] <= c[3]
                                       /\ c[2] <= g[2] /\ g[4] <= c[4] })

\* (mutation: self.conflict_area = shape)
UnionGeom_Replaces(ca, b) == [geom_type |-> "Polygon", geoms |-> {{b}}]

\* self.conflict_area.union(shape) for a box: the parts the box shares more
\* than a point with are dissolved into one polygon
UnionGeom(ca, b) ==
    LET touching == {p \in ca.geoms : \E c \in p : BoxAdjacent(c, b)}
        merged == {b} \cup UNION touching
        geoms == (ca.geoms \ touching) \cup {merged}
    IN [geom_type |-> IF Cardinality(geoms) = 1 THEN "Polygon" ELSE "MultiPolygon",
        geoms |-> geoms]

(***************************************************************************)
(* Map.__init__                                                            *)
(***************************************************************************)
map_area == box(0, 0, WIDTH, HEIGHT)

\* Polygon(map_area.buffer(99999).exterior, [map_area.exterior]): the frame
\* around the canvas, as four boxes
SeedBoxes ==
    LET o == Buffer(map_area, SEED_BUFFER)
    IN { box(o[1], o[2], map_area[1], o[4]), box(map_area[3], o[2], o[3], o[4]),
         box(o[1], o[2], o[3], map_area[2]), box(o[1], map_area[4], o[3], o[4]) }

InitConflictArea == [geom_type |-> "Polygon", geoms |-> {SeedBoxes}]

NoFrame == [op |-> "none"]
NoFfp == [polygon |-> box(0, 0, 0, 0), start |-> box(0, 0, 0, 0), x |-> 0, y |-> 0,
          number |-> 0, step |-> 0, i |-> 0, shifts |-> 0, checks |-> 0,
          ret |-> None]

MapInit ==
    /\ conflict_area = InitConflictArea
    /\ oplog = <<>>
    /\ pc = "idle"
    /\ frame = NoFrame
    /\ ffp = NoFfp
    /\ calls = 0

\* no Renderer drives this Map
NoRenderer ==
    /\ db = <<>>
    /\ rpc = 0
    /\ conflict_list = <<>>
    /\ pending = <<>>
    /\ iterating = FALSE
    /\ draws = <<>>

\* nothing else is running
Idle == [pc |-> "idle"]
NoSegment == seg = Idle
NoLayout == lay = Idle
NoCoastlines == coast = Idle
NoGenerator == gen = Idle
NoStyleSheet == sheet = Idle
NoUtils == NoSegment /\ NoLayout /\ NoCoastlines /\ NoGenerator /\ NoStyleSheet

Init == MapInit /\ NoRenderer /\ NoUtils

(***************************************************************************)
(* Map.find_free_position                                                  *)
(***************************************************************************)
shifts(step) == << <<step, 0>>, <<0, step>>, <<0 - step, 0>>, <<0, 0 - step>> >>

\* (mutation: x, y = polygon.bounds[2:])
FfpEnter_UpperCorner(polygon, number, step) ==
    [polygon |-> polygon, start |-> polygon, x |-> polygon[3], y |-> polygon[4],
     number |-> number, step |-> step, i |-> 0, shifts |-> 0, checks |-> 0,
     ret |-> None]

\* the locals on entry: x, y = polygon.bounds[:2]
FfpEnter(polygon, number, step) ==
    [polygon |-> polygon, start |-> polygon, x |-> polygon[1], y |-> polygon[2],
     number |-> number, step |-> step, i |-> 0, shifts |-> 0, checks |-> 0,
     ret |-> None]

\* (mutation: the first shift is taken without "if shifted_area < cur_area")
BestShift_Uncompared(polygon, step, ca, k) ==
    LET d == shifts(step)[1]
        shifted == translate_coords(polygon, d[1], d[2])
    IN [polygon |-> shifted, area |-> IntersectionArea(shifted, ca),
        dx |-> d[1], dy |-> d[2]]

\* (mutation: "if shifted_area <= cur_area")
RECURSIVE BestShift_LastWins(_, _, _, _)
BestShift_LastWins(polygon, step, ca, k) ==
    IF k = 0
    THEN [polygon |-> polygon, area |-> IntersectionArea(polygon, ca), dx |-> 0, dy |-> 0]
    ELSE LET prev == BestShift_LastWins(polygon, step, ca, k - 1)
             d == shifts(step)[k]
             shifted == translate_coords(polygon, d[1], d[2])
             shifted_area == IntersectionArea(shifted, ca)
         IN IF shifted_area <= prev.area
            THEN [polygon |-> shifted, area |-> shifted_area, dx |-> d[1], dy |-> d[2]]
            ELSE prev

\* the inner loop "for dx, dy in shifts": best so far after the first k shifts
RECURSIVE BestShift(_, _, _, _)
BestShift(polygon, step, ca, k) ==
    IF k = 0
    THEN [polygon |-> polygon, area |-> IntersectionArea(polygon, ca), dx |-> 0, dy |-> 0]
    ELSE LET prev == BestShift(polygon, step, ca, k - 1)
             d == shifts(step)[k]
             shifted == translate_coords(polygon, d[1], d[2])
             shifted_area == IntersectionArea(shifted, ca)
         IN IF shifted_area < prev.area
            THEN [polygon |-> shifted, area |-> shifted_area, dx |-> d[1], dy |-> d[2]]
            ELSE prev

\* (mutation: the collision test is left out)
FfpReturnFree_Unchecked ==
    /\ pc = "ffp"
    /\ UNCHANGED <<rvars, uvars>>
    /\ ffp.i < ffp.number
    /\ ffp' = [ffp EXCEPT !.checks = @ + 1, !.ret = [kind |-> "pos", x |-> ffp.x, y |-> ffp.y]]
    /\ pc' = "returned"
    /\ UNCHANGED <<conflict_area, oplog, frame, calls>>

\* one pass of "for _ in xrange(number)" that finds the polygon free: return x, y
FfpReturnFree ==
    /\ pc = "ffp"
    /\ UNCHANGED <<rvars, uvars>>
    /\ ffp.i < ffp.number
    /\ ~Intersects(ffp.polygon, conflict_area)
    /\ ffp' = [ffp EXCEPT !.checks = @ + 1, !.ret = [kind |-> "pos", x |-> ffp.x, y |-> ffp.y]]
    /\ pc' = "returned"
    /\ UNCHANGED <<conflict_area, oplog, frame, calls>>

\* one pass that finds the polygon colliding: move it by the best shift
FfpShift ==
    /\ pc = "ffp"
    /\ UNCHANGED <<rvars, uvars>>
    /\ ffp.i < ffp.number
    /\ Intersects(ffp.polygon, conflict_area)
    /\ LET best == BestShift(ffp.polygon, ffp.step, conflict_area, 4)
       IN ffp' = [ffp EXCEPT !.polygon = best.polygon,
                             !.x = @ + best.dx, !.y = @ + best.dy,
                             !.i = @ + 1, !.checks = @ + 1,
                             !.shifts = IF best.dx = 0 /\ best.dy = 0 THEN @ ELSE @ + 1]
    /\ UNCHANGED <<conflict_area, oplog, pc, frame, calls>>

\* (mutation: the function ends with "return x, y")
FfpExhausted_ReturnsPosition ==
    /\ pc = "ffp"
    /\ UNCHANGED <<rvars, uvars>>
    /\ ffp.i >= ffp.number
    /\ ffp' = [ffp EXCEPT !.ret = [kind |-> "pos", x |-> ffp.x, y |-> ffp.y]]
    /\ pc' = "returned"
    /\ UNCHANGED <<conflict_area, oplog, frame, calls>>

\* the loop is used up: the function falls off its end and returns None
FfpExhausted ==
    /\ pc = "ffp"
    /\ UNCHANGED <<rvars, uvars>>
    /\ ffp.i >= ffp.number
    /\ ffp' = [ffp EXCEPT !.ret = None]
    /\ pc' = "returned"
    /\ UNCHANGED <<conflict_area, oplog, frame, calls>>

(***************************************************************************)
(* Map.conflict_density                                                    *)
(***************************************************************************)
Clamp(v, lo, hi) == IF v < lo THEN lo ELSE IF v > hi THEN hi ELSE v

\* Point(x, y).buffer(radius) against one box: the nearest point of the box is
\* a lattice point, so the disc is decided by the squared distance
DiscIntersectsBox(x, y, radius, b) ==
    LET nx == Clamp(x, b[1], b[3])
        ny == Clamp(y, b[2], b[4])
    IN (nx - x) * (nx - x) + (ny - y) * (ny - y) <= radius * radius

\* density_area.intersects(area)
DiscIntersects(x, y, radius, part) ==
    \E b \in part : DiscIntersectsBox(x, y, radius, b)

\* (mutation: a Polygon counts as 1 without the intersection test)
conflict_density_PolygonIsOne(ca, x, y, radius) ==
    IF ca.geom_type \in {"MultiPolygon", "GeometryCollection"}
    THEN Cardinality({area \in ca.geoms : DiscIntersects(x, y, radius, area)})
    ELSE 1

\* (mutation: every part is counted, intersecting or not)
conflict_density_CountsAllParts(ca, x, y, radius) ==
    IF ca.geom_type \in {"MultiPolygon", "GeometryCollection"}
    THEN Cardinality(ca.geoms)
    ELSE IF DiscIntersects(x, y, radius, AllBoxes(ca)) THEN 1 ELSE 0

conflict_density(ca, x, y, radius) ==
    IF ca.geom_type \in {"MultiPolygon", "GeometryCollection"}
    THEN Cardinality({area \in ca.geoms : DiscIntersects(x, y, radius, area)})
    ELSE IF DiscIntersects(x, y, radius, AllBoxes(ca)) THEN 1 ELSE 0

(***************************************************************************)
(* Inputs of the model.                                                    *)
(***************************************************************************)
\* canvas positions handed to draw_text / draw_image (after transform_coords)
Anchors == { <<10, 10>>, <<100, 100>>, <<112, 100>>, <<60, 60>> }
\* (width, height) of an icon
Images == { <<20, 20>> }
\* (width, height) of an icon wider than 0.1 * max_size, as draw_text may be given
WideImages == { <<160, 20>> }
\* (width, height) from text_extents
Texts == { <<20, 10>> }
\* polygons handed to find_free_position directly, as tests/test_map.py does
Candidates == { box(10, 10, 50, 30), box(30, 30, 50, 30), box(18, 18, 38, 28),
                box(104, 86, 116, 114),
                box(100, 88, 124, 112) }
Numbers == {0, 1, 5, 10}
Steps == {1, 4}
\* (region, margin) handed to conflict_union
Reserved == { <<box(0, 0, 20, 20), 0>>, <<box(103, 103, 117, 107), 3>>,
              <<box(120, 110, 140, 120), 0>> }
\* (x, y, radius) handed to conflict_density
Probes == { <<10, 10, 10>>, <<50, 50, 10>>, <<120, 110, 5>>, <<60, 60, 60>> }

Logged(op, b) == [op |-> op, box |-> b]

(***************************************************************************)
(* Map.conflict_union (called by tests/test_map.py)                        *)
(***************************************************************************)
ConflictUnion(region, margin) ==
    /\ pc = "idle"
    /\ UNCHANGED <<rvars, uvars>>
    /\ calls < MaxCalls
    /\ conflict_area' = UnionGeom(conflict_area, Buffer(region, margin))
    /\ oplog' = Append(oplog, Logged("union", Buffer(region, margin)))
    /\ calls' = calls + 1
    /\ UNCHANGED <<pc, frame, ffp>>

(***************************************************************************)
(* Direct calls of find_free_position and conflict_density                 *)
(***************************************************************************)
CallFindFreePosition(polygon, number, step) ==
    /\ pc = "idle"
    /\ UNCHANGED <<rvars, uvars>>
    /\ calls < MaxCalls
    /\ frame' = [op |-> "find_free_position"]
    /\ ffp' = FfpEnter(polygon, number, step)
    /\ pc' = "ffp"
    /\ calls' = calls + 1
    /\ UNCHANGED <<conflict_area, oplog>>

CallConflictDensity(x, y, radius) ==
    /\ pc = "idle"
    /\ UNCHANGED <<rvars, uvars>>
    /\ calls < MaxCalls
    /\ frame' = [op |-> "conflict_density", x |-> x, y |-> y, radius |-> radius,
                 ret |-> conflict_density(conflict_area, x, y, radius)]
    /\ pc' = "density_returned"
    /\ calls' = calls + 1
    /\ UNCHANGED <<conflict_area, oplog, ffp>>

\* the caller takes the value: the call is over
Return ==
    /\ UNCHANGED <<rvars, uvars>>
    /\ \/ pc = "returned" /\ frame.op = "find_free_position"
       \/ pc = "density_returned"
    /\ pc' = "idle"
    /\ frame' = NoFrame
    /\ ffp' = NoFfp
    /\ UNCHANGED <<conflict_area, oplog, calls>>

(***************************************************************************)
(* Map.draw_image                                                          *)
(***************************************************************************)
\* up to the call of find_free_position
DrawImageCall(coord, image) ==
    /\ pc = "idle"
    /\ UNCHANGED <<rvars, uvars>>
    /\ calls < MaxCalls
    /\ LET width == image[1]
           height == image[2]
           x == coord[1] - width \div 2
           y == coord[2] - height \div 2
       IN /\ frame' = [op |-> "draw_image", x |-> x, y |-> y,
                       width |-> width, height |-> height]
          /\ ffp' = FfpEnter(box(x - 2, y - 2, x + width + 2, y + height + 2),
                             DEFAULT_NUMBER, DEFAULT_STEP)
    /\ pc' = "ffp"
    /\ calls' = calls + 1
    /\ UNCHANGED <<conflict_area, oplog>>

\* from the return of find_free_position to the end
DrawImageFinish ==
    /\ pc = "returned"
    /\ UNCHANGED <<rvars, uvars>>
    /\ frame.op = "draw_image"
    /\ IF ffp.ret = None
       THEN UNCHANGED <<conflict_area, oplog>>
       ELSE LET area == box(frame.x, frame.y, frame.x + frame.width,
                            frame.y + frame.height)
            IN /\ oplog' = oplog \o << Logged("paint_image", area),
                                       Logged("union", area) >>
               /\ conflict_area' = UnionGeom(conflict_area, area)
    /\ pc' = "idle"
    /\ frame' = NoFrame
    /\ ffp' = NoFfp
    /\ UNCHANGED calls

(***************************************************************************)
(* Map.draw_text                                                           *)
(***************************************************************************)
NoImage == <<0, 0>>
\* image_margin as Renderer.conflicts passes it: obj.style.get('image-margin', 4)
IMAGE_MARGIN == 4

\* Point(newx, newy).distance(Point(x, y)) > 0.1 * self.max_size
TooFar(newx, newy, x, y) ==
    100 * ((newx - x) * (newx - x) + (newy - y) * (newy - y)) > MAX_SIZE * MAX_SIZE

\* up to the call of find_free_position
DrawTextCall(coord, text, image) ==
    /\ pc = "idle"
    /\ UNCHANGED <<rvars, uvars>>
    /\ calls < MaxCalls
    /\ calls' = calls + 1
    /\ LET x == coord[1]
           y == coord[2]
           width == text[1]
           height == text[2]
           image_width == image[1]
           image_height == image[2]
       IN IF conflict_density(conflict_area, x, y, DEFAULT_RADIUS) > 1
          THEN \* too many text paths in this area
               UNCHANGED <<pc, frame, ffp>>
          ELSE /\ pc' = "ffp"
               /\ IF image # NoImage
                  THEN /\ frame' = [op |-> "draw_text", x |-> x, y |-> y,
                                    width |-> width, height |-> height, image |-> image]
                       /\ ffp' = FfpEnter(
                              box(x - image_width \div 2,
                                  y - Max(height, image_height) \div 2,
                                  x + image_width + width + IMAGE_MARGIN,
                                  y + Max(height, image_height) \div 2),
                              DEFAULT_NUMBER, DEFAULT_STEP)
                  ELSE \* place text directly on coord: x -= width / 2.0
                       /\ frame' = [op |-> "draw_text", x |-> x - width \div 2, y |-> y,
                                    width |-> width, height |-> height, image |-> image]
                       /\ ffp' = FfpEnter(
                              box(x - width \div 2 - 2, y - height \div 2 - 2,
                                  x - width \div 2 + 2 + width, y + height \div 2 + 2),
                              DEFAULT_NUMBER, DEFAULT_STEP)
    /\ UNCHANGED <<conflict_area, oplog>>

\* from the return of find_free_position to the end
DrawTextFinish ==
    /\ pc = "returned"
    /\ UNCHANGED <<rvars, uvars>>
    /\ frame.op = "draw_text"
    /\ pc' = "idle"
    /\ frame' = NoFrame
    /\ ffp' = NoFfp
    /\ UNCHANGED calls
    /\ IF ffp.ret = None
       THEN \* except TypeError: no free position found
            UNCHANGED <<conflict_area, oplog>>
       ELSE LET x == frame.x
                width == frame.width
                height == frame.height
                image == frame.image
                image_width == image[1]
                image_height == image[2]
                has_image == image # NoImage
                \* y = newy + (max(height, image_height) - image_height) / 2.0
                y == IF has_image
                     THEN ffp.ret.y + (Max(height, image_height) - image_height) \div 2
                     ELSE frame.y
                painted_image == box(ffp.ret.x, y, ffp.ret.x + image_width, y + image_height)
                image_area == box(x, y, x + image_width, y + image_height)
                newx == IF has_image THEN ffp.ret.x + image_width + IMAGE_MARGIN
                        ELSE ffp.ret.x
                newy == IF has_image THEN ffp.ret.y + (image_height + height) \div 2
                        ELSE ffp.ret.y + height + 2
                \* box(*self.context.path_extents()) of the text at (int(newx), int(newy))
                area == box(newx, newy - height, newx + width, newy)
                before == IF has_image THEN << Logged("paint_image", painted_image) >>
                          ELSE << >>
            IN IF TooFar(newx, newy, x, y)
               THEN /\ oplog' = oplog \o before
                    /\ UNCHANGED conflict_area
               ELSE /\ oplog' = oplog \o before
                          \o << Logged("stroke_halo", area),
                                Logged("union", Buffer(area, CONFLICT_MARGIN)) >>
                          \o (IF has_image
                              THEN << Logged("union",
                                        Buffer(Buffer(image_area, CONFLICT_MARGIN),
                                               CONFLICT_MARGIN)) >>
                              ELSE << >>)
                          \o << Logged("fill_text", area) >>
                    /\ conflict_area' =
                          IF has_image
                          THEN UnionGeom(
                                   UnionGeom(conflict_area, Buffer(area, CONFLICT_MARGIN)),
                                   Buffer(Buffer(image_area, CONFLICT_MARGIN),
                                          CONFLICT_MARGIN))
                          ELSE UnionGeom(conflict_area, Buffer(area, CONFLICT_MARGIN))

(***************************************************************************)
(* Map.draw_text_on_line, for a horizontal two-point line                  *)
(* ((xa, y), (xb, y)) and a text <<characters, width, height, offset,      *)
(* outlines>>, outlines the number of its characters whose glyph has a     *)
(* path                                                                    *)
(***************************************************************************)
\* self.map_area.exterior.buffer(height): the band along the canvas boundary
BoundaryBand(height) ==
    { Buffer(box(0, 0, 0, HEIGHT), height), Buffer(box(WIDTH, 0, WIDTH, HEIGHT), height),
      Buffer(box(0, 0, WIDTH, 0), height), Buffer(box(0, HEIGHT, WIDTH, HEIGHT), height) }

\* the unit segment [k, k + 1] of the line at height y survives the differences
FreeSegment(k, y, removed) ==
    ~ \E b \in removed : b[2] <= y /\ y <= b[4] /\ b[1] <= k /\ k + 1 <= b[3]

\* line.difference(band).difference(self.conflict_area): the pieces <<a, b>>,
\* whose ends are ends of the line or sides of the boxes taken away
LinePieces(lo, hi, y, removed) ==
    LET across == { b \in removed : b[2] <= y /\ y <= b[4] /\ b[1] < hi /\ lo < b[3] }
        ends == {lo, hi} \cup { e \in { b[1] : b \in across } \cup { b[3] : b \in across } :
                                 lo <= e /\ e <= hi }
    IN { q \in ends \X ends :
           /\ q[1] < q[2]
           /\ \A b \in across : b[3] <= q[1] \/ q[2] <= b[1]
           /\ q[1] = lo \/ ~FreeSegment(q[1] - 1, y, across)
           /\ q[2] = hi \/ ~FreeSegment(q[2], y, across) }

\* the loop over line.geoms: the first of the longest pieces longer than
\* width * 1.2, or None
LongestPiece(pieces, width) ==
    LET long == { q \in pieces : 10 * (q[2] - q[1]) > 12 * width }
    IN IF long = {} THEN None
       ELSE CHOOSE q \in long :
              \A r \in long : \/ r[2] - r[1] < q[2] - q[1]
                              \/ r[2] - r[1] = q[2] - q[1] /\ q[1] <= r[1]

\* utils.linestring_text_optimal_segment for a two-point line of this length
TwoPointSegment(length, width) ==
    IF 10 * length >= 12 * width THEN <<0, 1>> ELSE None

\* (mutation: the test "if char_coords is not None" is left out)
DrawTextOnLine_ReservesUndrawn(ln, text) ==
    /\ pc = "idle"
    /\ UNCHANGED <<rvars, uvars>>
    /\ calls < MaxCalls
    /\ calls' = calls + 1
    /\ UNCHANGED <<pc, frame, ffp>>
    /\ LET chars == text[1]
           width == text[2]
           height == text[3]
           offset == text[4]
           outlines == text[5]
           lo == Min(ln[1], ln[3])
           hi == Max(ln[1], ln[3])
           y == ln[2]
           pieces == LinePieces(lo, hi, y, BoundaryBand(height) \cup AllBoxes(conflict_area))
           piece == IF Cardinality(pieces) > 1 THEN LongestPiece(pieces, width)
                    ELSE IF pieces = {} THEN None
                    ELSE CHOOSE q \in pieces : TRUE
       IN IF \/ chars = 0
             \/ piece = None
             \/ TwoPointSegment(piece[2] - piece[1], width) = None
          THEN UNCHANGED <<conflict_area, oplog>>
          ELSE IF outlines = 0
          THEN LET covered == Buffer(box(piece[1], y + offset, piece[2], y + offset),
                                     height + CONFLICT_MARGIN)
               IN /\ conflict_area' = UnionGeom(conflict_area, covered)
                  /\ oplog' = Append(oplog, Logged("union", covered))
          ELSE \* line.parallel_offset(offset, 'left'), then line.buffer(...)
               LET covered == Buffer(box(piece[1], y + offset, piece[2], y + offset),
                                     height + CONFLICT_MARGIN)
                   start_len == (piece[2] - piece[1] - width) \div 2
                   glyphs == box(piece[1] + start_len, y + offset - height,
                                 piece[1] + start_len + width, y + offset)
               IN /\ conflict_area' = UnionGeom(conflict_area, covered)
                  /\ oplog' = oplog \o << Logged("union", covered),
                                          Logged("stroke_halo", glyphs),
                                          Logged("fill_text", glyphs) >>

DrawTextOnLine(ln, text) ==
    /\ pc = "idle"
    /\ UNCHANGED <<rvars, uvars>>
    /\ calls < MaxCalls
    /\ calls' = calls + 1
    /\ UNCHANGED <<pc, frame, ffp>>
    /\ LET chars == text[1]
           width == text[2]
           height == text[3]
           offset == text[4]
           outlines == text[5]
           lo == Min(ln[1], ln[3])
           hi == Max(ln[1], ln[3])
           y == ln[2]
           pieces == LinePieces(lo, hi, y, BoundaryBand(height) \cup AllBoxes(conflict_area))
           piece == IF Cardinality(pieces) > 1 THEN LongestPiece(pieces, width)
                    ELSE IF pieces = {} THEN None
                    ELSE CHOOSE q \in pieces : TRUE
       IN IF \/ chars = 0
             \/ piece = None
             \/ TwoPointSegment(piece[2] - piece[1], width) = None
          THEN UNCHANGED <<conflict_area, oplog>>
          ELSE IF outlines = 0
          THEN \* no char.geoms to draw: char_coords stays None, the stroke and
               \* the fill find an empty path
               UNCHANGED <<conflict_area, oplog>>
          ELSE \* line.parallel_offset(offset, 'left'), then line.buffer(...)
               LET covered == Buffer(box(piece[1], y + offset, piece[2], y + offset),
                                     height + CONFLICT_MARGIN)
                   start_len == (piece[2] - piece[1] - width) \div 2
                   glyphs == box(piece[1] + start_len, y + offset - height,
                                 piece[1] + start_len + width, y + offset)
               IN /\ conflict_area' = UnionGeom(conflict_area, covered)
                  /\ oplog' = oplog \o << Logged("union", covered),
                                          Logged("stroke_halo", glyphs),
                                          Logged("fill_text", glyphs) >>

\* ((xa, y), (xb, y)) as <<xa, y, xb>>
TextLines == { <<20, 100, 200>>, <<200, 100, 20>>, <<300, 400, 320>>, <<2, 300, 60>> }
LineTexts == { <<4, 20, 10, 2, 4>>, <<0, 0, 0, 0, 0>>, <<1, 8, 10, 2, 0>> }

Next ==
    \/ \E r \in Reserved : ConflictUnion(r[1], r[2])
    \/ \E p \in Candidates, n \in Numbers, s \in Steps : CallFindFreePosition(p, n, s)
    \/ \E q \in Probes : CallConflictDensity(q[1], q[2], q[3])
    \/ Return
    \/ \E c \in Anchors, im \in Images : DrawImageCall(c, im)
    \/ DrawImageFinish
    \/ \E c \in Anchors, t \in Texts, im \in Images \cup WideImages \cup {NoImage} : DrawTextCall(c, t, im)
    \/ DrawTextFinish
    \/ \E ln \in TextLines, t \in LineTexts : DrawTextOnLine(ln, t)
    \/ FfpReturnFree
    \/ FfpShift
    \/ FfpExhausted

Spec == Init /\ [][Next]_vars

(***************************************************************************)
(* Properties of Map.find_free_position                                    *)
(***************************************************************************)
Pos(x, y) == [kind |-> "pos", x |-> x, y |-> y]

\* the candidate as handed in, moved so that its lower-left corner is (x, y)
MovedTo(polygon, x, y) == translate_coords(polygon, x - polygon[1], y - polygon[2])

\* the accumulated region of tests/test_map.py: the seed and the square
\* box(0, 0, 20, 20)
SquareReserved == AllBoxes(conflict_area) = SeedBoxes \cup {box(0, 0, 20, 20)}

\* C1: whenever find_free_position returns a position (x, y), the candidate
\* moved to (x, y) does not intersect conflict_area, and at most `number`
\* shift iterations were performed.
C1_ReturnedPositionIsFree ==
    (pc = "returned" /\ ffp.ret # None) =>
        /\ ~Intersects(MovedTo(ffp.start, ffp.ret.x, ffp.ret.y), conflict_area)
        /\ ffp.i <= ffp.number
        /\ ffp.shifts <= ffp.number

C1_Witness ==
    /\ pc = "returned"
    /\ ffp.ret # None
    /\ ffp.shifts >= 2
    /\ Intersects(ffp.start, conflict_area)

\* C2: a candidate that does not intersect conflict_area when the search is
\* called with number >= 1 is returned at its own (minx, miny) on the first
\* check, without any shift.
C2_FreeCandidateStays ==
    (pc \in {"ffp", "returned"} /\ ffp.number >= 1
        /\ ~Intersects(ffp.start, conflict_area)) =>
        /\ ffp.i = 0
        /\ ffp.polygon = ffp.start
        /\ pc = "returned" =>
              /\ ffp.ret = Pos(ffp.start[1], ffp.start[2])
              /\ ffp.checks = 1
              /\ ffp.shifts = 0

C2_Witness ==
    /\ pc = "returned"
    /\ ffp.number >= 1
    /\ ~Intersects(ffp.start, conflict_area)
    /\ ffp.ret = Pos(ffp.start[1], ffp.start[2])
    /\ calls = 2

\* C3: with the seed and the square box(0, 0, 20, 20) reserved,
\* find_free_position(box(10, 10, 50, 30), step=1, number=10) returns (10, 20).
C3_ScenarioResolves ==
    (pc = "returned" /\ SquareReserved /\ ffp.start = box(10, 10, 50, 30)
        /\ ffp.step = 1 /\ ffp.number = 10) =>
        ffp.ret = Pos(10, 20)

\* C4: a candidate that still intersects conflict_area when the move budget is
\* used up makes find_free_position return None; so does box(10, 10, 50, 30)
\* against the reserved square with step=1, number=5.
C4_ExhaustedReturnsNone ==
    /\ (pc = "returned" /\ ffp.i >= ffp.number
           /\ Intersects(ffp.polygon, conflict_area)) => ffp.ret = None
    /\ (pc = "returned" /\ SquareReserved /\ ffp.start = box(10, 10, 50, 30)
           /\ ffp.step = 1 /\ ffp.number = 5) => ffp.ret = None

C4_Witness ==
    /\ pc = "returned"
    /\ SquareReserved
    /\ ffp.start = box(10, 10, 50, 30)
    /\ ffp.step = 1
    /\ ffp.number = 5
    /\ ffp.i = 5
    /\ Intersects(ffp.polygon, conflict_area)
    /\ ffp.ret = None

\* C5: the zero-area candidate box(30, 30, 50, 30), overlapping nothing and
\* placed with number=0, resolves to its unshifted position (30, 30).
C5_DegenerateResolves ==
    (pc = "returned" /\ ffp.start = box(30, 30, 50, 30) /\ ffp.number = 0
        /\ ~Intersects(ffp.start, conflict_area)) =>
        ffp.ret = Pos(30, 30)

\* the four translations in the order the claim names them
FourMoves(step) == << <<step, 0>>, <<0, step>>, <<0 - step, 0>>, <<0, 0 - step>> >>

MovedArea(k) ==
    IntersectionArea(translate_coords(ffp.polygon, FourMoves(ffp.step)[k][1],
                                      FourMoves(ffp.step)[k][2]), conflict_area)

\* C19: a pass of find_free_position that finds the candidate colliding
\* adopts, of the translations (+step, 0), (0, +step), (-step, 0),
\* (0, -step), the one of least intersection area if that area is strictly
\* smaller than the current one, the first of them in this order on a tie,
\* and leaves the position unchanged if none is strictly smaller.
C19_BestShiftAdopted ==
    [][(pc = "ffp" /\ pc' = "ffp" /\ ffp'.i = ffp.i + 1) =>
          LET cur == IntersectionArea(ffp.polygon, conflict_area)
              least == CHOOSE k \in 1 .. 4 :
                          /\ \A j \in 1 .. 4 : MovedArea(k) <= MovedArea(j)
                          /\ \A j \in 1 .. (k - 1) : MovedArea(j) > MovedArea(k)
              d == FourMoves(ffp.step)[least]
          IN IF MovedArea(least) < cur
             THEN /\ ffp'.polygon = translate_coords(ffp.polygon, d[1], d[2])
                  /\ ffp'.x = ffp.x + d[1]
                  /\ ffp'.y = ffp.y + d[2]
             ELSE /\ ffp'.polygon = ffp.polygon
                  /\ ffp'.x = ffp.x
                  /\ ffp'.y = ffp.y]_vars

\* a tie between +x and +y was met and +x adopted
C19_Witness ==
    /\ pc = "ffp"
    /\ SquareReserved
    /\ ffp.start = box(10, 10, 50, 30)
    /\ ffp.step = 1
    /\ ffp.i = 1
    /\ ffp.polygon = box(11, 10, 51, 30)

\* C20: find_free_position returns the current position as soon as the
\* candidate, after k shifts for any k from 0 up to `number`, no longer
\* intersects conflict_area; it returns None only when the candidate still
\* intersects after the budget is used up.
C20_ReturnsOnceFree ==
    pc = "returned" =>
        IF Intersects(ffp.polygon, conflict_area)
        THEN ffp.ret = None
        ELSE ffp.ret = Pos(ffp.x, ffp.y)

(***************************************************************************)
(* Properties of Map.conflict_area and Map.conflict_density                *)
(***************************************************************************)
\* C6: conflict_area only grows during a pass: every step leaves every box
\* of the region in it, and the region always holds the out-of-canvas seed.
C6_ConflictAreaGrows ==
    /\ [](SeedBoxes \subseteq AllBoxes(conflict_area))
    /\ [][AllBoxes(conflict_area) \subseteq AllBoxes(conflict_area')]_vars

C6_Witness ==
    /\ calls = 2
    /\ pc = "idle"
    /\ \E k \in 1 .. Len(oplog) : oplog[k].op = "fill_text"
    /\ \E k \in 1 .. Len(oplog) : oplog[k].op = "paint_image"
    /\ Cardinality(AllBoxes(conflict_area)) >= Cardinality(SeedBoxes) + 2

\* the parts of a set of boxes that hang together, found by closing each box
\* under "shares more than a point with"
RECURSIVE Connected(_, _)
Connected(part, boxes) ==
    LET more == part \cup { b \in boxes : \E c \in part : BoxAdjacent(b, c) }
    IN IF more = part THEN part ELSE Connected(more, boxes)

Components(boxes) == { Connected({b}, boxes) : b \in boxes }

Row(kind, z, text, image, circle, casing) ==
    [kind |-> kind, z |-> z, text |-> text, image |-> image, circle |-> circle,
     casing |-> casing]

Rows ==
    { Row("point", z, f[1], f[2], f[3], FALSE) :
        z \in 0 .. MaxZ,
        f \in { <<TRUE, FALSE, TRUE>>, <<TRUE, TRUE, FALSE>>, <<FALSE, TRUE, FALSE>> } }
    \cup { Row("line", z, t, FALSE, FALSE, z > 0) : z \in 0 .. MaxZ, t \in BOOLEAN }
    \cup { Row("polygon", z, t, FALSE, FALSE, FALSE) : z \in 0 .. MaxZ, t \in BOOLEAN }
    \cup { Row("coastline", 0, FALSE, FALSE, FALSE, FALSE) }

RenderInit ==
    /\ MapInit
    /\ NoUtils
    /\ db \in UNION { [1 .. n -> Rows] : n \in 0 .. MaxObjects }
    /\ rpc = 1
    /\ conflict_list = <<>>
    /\ pending = <<>>
    /\ iterating = FALSE
    /\ draws = <<>>

\* (mutation: self.conflicts() is called before self.points())
run_order_ConflictsEarly == << "draw_background", "coastlines", "polygons", "lines",
                              "conflicts", "points" >>

\* Renderer.run: the steps in the order it takes them
run_order == << "draw_background", "coastlines", "polygons", "lines", "points",
               "conflicts" >>

Stage == IF rpc >= 1 /\ rpc <= Len(run_order) THEN run_order[rpc] ELSE "done"

Draw(op, layer, obj) == [op |-> op, layer |-> layer, obj |-> obj]

RECURSIVE Concat(_)
Concat(seqs) == IF seqs = <<>> THEN <<>> ELSE Head(seqs) \o Concat(Tail(seqs))

Reverse(seq) == [k \in 1 .. Len(seq) |-> seq[Len(seq) + 1 - k]]

\* the rows of one table, in query order
RowsOf(kind) ==
    SelectSeq([k \in 1 .. Len(db) |-> k], LAMBDA k : db[k].kind = kind)

\* Renderer.query_objects: one list per z-index, in rising z-index; the lists
\* above the highest z-index in use stay empty and are left out
query_objects(kind) ==
    [zi \in 1 .. (MaxZ + 1) |->
        SelectSeq(RowsOf(kind), LAMBDA k : db[k].z = zi - 1)]

\* one Map call per row of a list
DrawEach(op, layer, objs) == [k \in 1 .. Len(objs) |-> Draw(op, layer, objs[k])]

HasText(k) == db[k].text
HasCasing(k) == db[k].casing

\* self.mapobj.draw_background(self.stylesheet.map_background)
RunDrawBackground ==
    /\ Stage = "draw_background"
    /\ draws' = Append(draws, Draw("draw_background", "background", 0))
    /\ rpc' = rpc + 1
    /\ UNCHANGED <<db, conflict_list, pending, iterating>>
    /\ UNCHANGED <<mvars, uvars>>

\* Renderer.coastlines; rings is the number of rings utils.close_coastlines
\* makes of the coastlines
Coastlines(rings) ==
    /\ Stage = "coastlines"
    /\ LET coastlines == RowsOf("coastline")
       IN /\ rings <= Len(coastlines)
          /\ draws' = IF coastlines # <<>>
                      THEN Append(draws, Draw("draw_background", "coastlines", 0))
                           \o [k \in 1 .. rings |-> Draw("draw_polygon", "coastlines", 0)]
                      ELSE draws
    /\ rpc' = rpc + 1
    /\ UNCHANGED <<db, conflict_list, pending, iterating>>
    /\ UNCHANGED <<mvars, uvars>>

\* Renderer.polygons
Polygons ==
    /\ Stage = "polygons"
    /\ LET polygons == Concat(query_objects("polygon"))
       IN /\ draws' = draws \o DrawEach("draw_polygon", "polygons", polygons)
          /\ conflict_list' = conflict_list \o SelectSeq(polygons, HasText)
    /\ rpc' = rpc + 1
    /\ UNCHANGED <<db, pending, iterating>>
    /\ UNCHANGED <<mvars, uvars>>

\* the three passes of Renderer.lines over the lines of one z-index
LinePasses(lines) ==
    DrawEach("draw_line", "lines", SelectSeq(lines, HasCasing))
    \o DrawEach("draw_line", "lines", SelectSeq(lines, HasCasing))
    \o DrawEach("draw_line", "lines", lines)

\* Renderer.lines
Lines ==
    /\ Stage = "lines"
    /\ LET results == query_objects("line")
       IN /\ draws' = draws \o Concat([zi \in 1 .. Len(results) |-> LinePasses(results[zi])])
          /\ conflict_list' = conflict_list
                                \o SelectSeq(Concat(Reverse(results)), HasText)
    /\ rpc' = rpc + 1
    /\ UNCHANGED <<db, pending, iterating>>
    /\ UNCHANGED <<mvars, uvars>>

\* Renderer.points
Points ==
    /\ Stage = "points"
    /\ LET points == Concat(query_objects("point"))
       IN /\ conflict_list' = conflict_list
                \o SelectSeq(points, LAMBDA k : db[k].text \/ db[k].image)
          /\ draws' = draws
                \o DrawEach("draw_arc", "points", SelectSeq(points, LAMBDA k : db[k].circle))
    /\ rpc' = rpc + 1
    /\ UNCHANGED <<db, pending, iterating>>
    /\ UNCHANGED <<mvars, uvars>>

\* Renderer.conflicts: "for obj in reversed(self.conflict_list)"
ConflictsStart ==
    /\ Stage = "conflicts"
    /\ ~iterating
    /\ iterating' = TRUE
    /\ pending' = Reverse(conflict_list)
    /\ UNCHANGED <<db, rpc, conflict_list, draws>>
    /\ UNCHANGED <<mvars, uvars>>

\* the Map call the body of the loop makes for one row
Placement(k) ==
    IF db[k].kind = "point"
    THEN IF db[k].text THEN "draw_text" ELSE "draw_image"
    ELSE IF db[k].kind = "line" THEN "draw_text_on_line"
    ELSE "draw_text"

\* one pass of the loop of Renderer.conflicts
ConflictsPlace ==
    /\ Stage = "conflicts"
    /\ iterating
    /\ pending # <<>>
    /\ draws' = Append(draws, Draw(Placement(Head(pending)), "conflicts", Head(pending)))
    /\ pending' = Tail(pending)
    /\ UNCHANGED <<db, rpc, conflict_list, iterating>>
    /\ UNCHANGED <<mvars, uvars>>

\* the loop is over: conflicts() and run() return
ConflictsEnd ==
    /\ Stage = "conflicts"
    /\ iterating
    /\ pending = <<>>
    /\ iterating' = FALSE
    /\ rpc' = rpc + 1
    /\ UNCHANGED <<db, conflict_list, pending, draws>>
    /\ UNCHANGED <<mvars, uvars>>

RenderNext ==
    \/ RunDrawBackground
    \/ \E rings \in 0 .. MaxObjects : Coastlines(rings)
    \/ Polygons
    \/ Lines
    \/ Points
    \/ ConflictsStart
    \/ ConflictsPlace
    \/ ConflictsEnd

SpecRender == RenderInit /\ [][RenderNext]_vars

(***************************************************************************)
(* Properties of Renderer.run and Renderer.conflicts                       *)
(***************************************************************************)
LayerRank(layer) ==
    CASE layer = "background" -> 0
      [] layer = "coastlines" -> 1
      [] layer = "polygons" -> 2
      [] layer = "lines" -> 3
      [] layer = "points" -> 4
      [] layer = "conflicts" -> 5

PlacementOps == {"draw_text", "draw_text_on_line", "draw_image"}

Drawn(op, k) == \E d \in 1 .. Len(draws) : draws[d].op = op /\ draws[d].obj = k

\* every polygon, every line and every point circle of the database is drawn
OpaqueLayersDrawn ==
    \A k \in 1 .. Len(db) :
        /\ db[k].kind = "polygon" => Drawn("draw_polygon", k)
        /\ db[k].kind = "line" => Drawn("draw_line", k)
        /\ (db[k].kind = "point" /\ db[k].circle) => Drawn("draw_arc", k)

\* C9: run() issues the layers in the order background, coastlines,
\* polygons, lines, points, deferred annotations: no call of a later layer
\* comes before a call of an earlier one, and no label or icon is placed
\* before all polygons, lines and point circles are drawn.
C9_LayersInOrder ==
    /\ \A i, j \in 1 .. Len(draws) :
          i < j => LayerRank(draws[i].layer) <= LayerRank(draws[j].layer)
    /\ (\E d \in 1 .. Len(draws) : draws[d].op \in PlacementOps) => OpaqueLayersDrawn

C9_Witness ==
    /\ Stage = "done"
    /\ \E d \in 1 .. Len(draws) : draws[d].op = "draw_polygon"
    /\ \E d \in 1 .. Len(draws) : draws[d].op = "draw_line"
    /\ \E d \in 1 .. Len(draws) : draws[d].op = "draw_arc"
    /\ \E d \in 1 .. Len(draws) : draws[d].op = "draw_text_on_line"
    /\ \E d \in 1 .. Len(draws) : draws[d].op = "draw_text"

KindRank(kind) ==
    CASE kind = "point" -> 0
      [] kind = "line" -> 1
      [] kind = "polygon" -> 2

Deferred(k) ==
    \/ db[k].kind = "point" /\ (db[k].text \/ db[k].image)
    \/ db[k].kind \in {"line", "polygon"} /\ db[k].text

\* C10: conflicts() places every deferred annotation once, points before
\* lines before polygons and, within one kind, a higher z-index before a
\* lower one.
C10_PlacedByPriority ==
    /\ \A i, j \in 1 .. Len(draws) :
          (i < j /\ draws[i].layer = "conflicts" /\ draws[j].layer = "conflicts") =>
              LET a == db[draws[i].obj]
                  b == db[draws[j].obj]
              IN /\ KindRank(a.kind) <= KindRank(b.kind)
                 /\ a.kind = b.kind => a.z >= b.z
    /\ Stage = "done" =>
          \A k \in 1 .. Len(db) :
              Cardinality({ d \in 1 .. Len(draws) :
                              draws[d].layer = "conflicts" /\ draws[d].obj = k })
                  = IF Deferred(k) THEN 1 ELSE 0

(***************************************************************************)
(* Properties of Map.draw_text and Map.draw_image                          *)
(***************************************************************************)
PaintOps == {"paint_image", "stroke_halo", "fill_text"}

\* C11: whatever draw_text or draw_image paints (an icon, the halo and the
\* fill of a label) lies at the free position find_free_position found: its
\* footprint does not intersect the conflict_area accumulated before the call.
C11_PaintedFootprintIsFree ==
    [][(pc = "returned" /\ frame.op \in {"draw_text", "draw_image"}) =>
          \A k \in (Len(oplog) + 1) .. Len(oplog') :
              oplog'[k].op \in PaintOps => ~Intersects(oplog'[k].box, conflict_area)]_vars

(***************************************************************************)
(* mapython.utils.linestring_text_optimal_segment                          *)
(*                                                                         *)
(* A linestring is the sequence of its segments <<length, bearing>>, the   *)
(* bearing (math.atan2 of the segment) in tenths of a radian.  Node k      *)
(* (0-based, as in the code) lies between segment k and segment k + 1.     *)
(***************************************************************************)
\* max_rad=4.5, in tenths of a radian
MAX_RAD == 45
\* segments of a linestring
MaxSegs == 3

SegLengths == {5, 10}
Bearings == {-30, 0, 16, 30}
TextWidths == {5, 10, 20}

Abs(v) == IF v < 0 THEN 0 - v ELSE v

RECURSIVE SumLens(_, _, _)
\* sum(seg_lens[a:b]) with 0-based a, b
SumLens(segs, a, b) == IF a >= b THEN 0 ELSE segs[a + 1][1] + SumLens(segs, a + 1, b)

\* rad_diffs[k]: 0 at both ends, abs(rad2 - rad1) at an inner node
rad_diffs(segs, k) ==
    IF k = 0 \/ k = Len(segs) THEN 0 ELSE Abs(segs[k + 1][2] - segs[k][2])

RECURSIVE SumRads(_, _, _)
\* sum(rad_diffs[a:b])
SumRads(segs, a, b) == IF a >= b THEN 0 ELSE rad_diffs(segs, a) + SumRads(segs, a + 1, b)

\* (mutation: the bend of a run is not looked at)
BendCost_Zero(segs, start, end) == 0

\* rad = sum(rad_diffs[start+1:end])
BendCost(segs, start, end) == SumRads(segs, start + 1, end)

\* "determine end node": the first node at which the run from start reaches
\* width * 1.2, or None
Reach(segs, start, width) ==
    { e \in (start + 1) .. Len(segs) : 10 * SumLens(segs, start, e) >= 12 * width }

\* end is not None
HasEnd(segs, start, width) == Reach(segs, start, width) # {}

EndNode(segs, start, width) ==
    CHOOSE e \in Reach(segs, start, width) : \A f \in Reach(segs, start, width) : e <= f

\* the tuple (start, end) the function returns
Segment(start, end) == [kind |-> "segment", start |-> start, end |-> end]

\* (mutation: diff = sum(seg_lens[:start]))
MidDiff_FromStart(segs, q) == SumLens(segs, 0, q.start)

\* diff = abs(sum(seg_lens[:start]) - sum(seg_lens[end:]))
MidDiff(segs, q) == Abs(SumLens(segs, 0, q.start) - SumLens(segs, q.end, Len(segs)))

SegmentCall(segs, width) ==
    [pc |-> "scan", segs |-> segs, width |-> width, start |-> 0,
     rad_sums |-> {}, min_rad |-> MAX_RAD, ret |-> None, label |-> "pending"]

SegmentInit ==
    /\ MapInit
    /\ NoRenderer
    /\ NoLayout /\ NoCoastlines /\ NoGenerator /\ NoStyleSheet
    /\ seg \in { SegmentCall(segs, width) :
                   segs \in UNION { [1 .. n -> SegLengths \X Bearings] : n \in 1 .. MaxSegs },
                   width \in TextWidths }

\* one pass of "for start in xrange(len(seg_lens))"
SegmentScan ==
    /\ seg.pc = "scan"
    /\ seg.start < Len(seg.segs)
    /\ LET end == EndNode(seg.segs, seg.start, seg.width)
           rad == BendCost(seg.segs, seg.start, end)
       IN seg' = IF ~HasEnd(seg.segs, seg.start, seg.width)
                 THEN [seg EXCEPT !.start = @ + 1]
                 ELSE IF rad < seg.min_rad
                 THEN [seg EXCEPT !.start = @ + 1, !.rad_sums = {Segment(seg.start, end)},
                                  !.min_rad = rad]
                 ELSE IF rad = seg.min_rad
                 THEN [seg EXCEPT !.start = @ + 1,
                                  !.rad_sums = @ \cup {Segment(seg.start, end)}]
                 ELSE [seg EXCEPT !.start = @ + 1]
    /\ UNCHANGED <<mvars, rvars, lay, coast, gen, sheet>>

\* "find midmost element": the loop over rad_sums.iteritems() keeps the first
\* key of least diff it meets; a dict gives its keys in no promised order
SegmentReturn ==
    /\ seg.pc = "scan"
    /\ seg.start >= Len(seg.segs)
    /\ \/ /\ seg.rad_sums = {}
          /\ seg' = [seg EXCEPT !.pc = "returned", !.ret = None]
       \/ \E q \in seg.rad_sums :
             /\ \A r \in seg.rad_sums : MidDiff(seg.segs, q) <= MidDiff(seg.segs, r)
             /\ seg' = [seg EXCEPT !.pc = "returned", !.ret = q]
    /\ UNCHANGED <<mvars, rvars, lay, coast, gen, sheet>>

\* Map.draw_text_on_line on the return: "if seg is None: return", else the
\* segment is cropped and laid out
SegmentCaller ==
    /\ seg.pc = "returned"
    /\ seg' = [seg EXCEPT !.pc = "done",
                          !.label = IF seg.ret = None THEN "dropped" ELSE "laid_out"]
    /\ UNCHANGED <<mvars, rvars, lay, coast, gen, sheet>>

SegmentNext == SegmentScan \/ SegmentReturn \/ SegmentCaller

SpecSegment == SegmentInit /\ [][SegmentNext]_vars

Straight(segs) == \A k \in 1 .. Len(segs) : segs[k][2] = segs[1][2]

\* C12: for a straight path whose length is at least 1.2 x the text width,
\* linestring_text_optimal_segment returns (0, index of the last point).
C12_StraightPathIsTakenWhole ==
    (seg.pc \in {"returned", "done"} /\ Straight(seg.segs)
        /\ 10 * SumLens(seg.segs, 0, Len(seg.segs)) >= 12 * seg.width) =>
        seg.ret = Segment(0, Len(seg.segs))

\* C13: if for every start index the shortest run reaching 1.2 x the text
\* width bends by more than max_rad, or no run reaches that length, the
\* function returns None and draw_text_on_line drops the label.
C13_NoAdmissibleSegmentDropsLabel ==
    (seg.pc \in {"returned", "done"}
        /\ \A start \in 0 .. (Len(seg.segs) - 1) :
              \/ ~HasEnd(seg.segs, start, seg.width)
              \/ SumRads(seg.segs, start + 1, EndNode(seg.segs, start, seg.width)) > MAX_RAD) =>
        /\ seg.ret = None
        /\ seg.pc = "done" => seg.label = "dropped"

C13_Witness ==
    /\ seg.pc = "done"
    /\ seg.label = "dropped"
    /\ Len(seg.segs) = MaxSegs
    /\ HasEnd(seg.segs, 0, seg.width)

(***************************************************************************)
(* mapython.utils.iter_chars_on_line, for a straight line from (0, 0) to   *)
(* (length, 0).  Lengths are in hundredths of a unit.  A glyph of some     *)
(* width, placed at pos, covers [pos, pos + width]; text_geom is the set   *)
(* of the pieces <<lo, hi>> united so far.                                 *)
(***************************************************************************)
\* for _ in xrange(30)
RETRIES == 30
\* step=0.85
STEP == 85
\* generate_char_geoms: spacing=0.8, space_width=3
SPACING == 80
SPACE_WIDTH == 300
\* cur_len = max(start_len, 1)
MIN_START == 100
\* glyphs of a label
MaxChars == 3

\* (geometry, width, spacing) of generate_char_geoms as <<width, spacing>>:
\* a glyph that follows a glyph, and one that follows a space
Glyphs == { <<500, SPACING>>, <<500, SPACING + SPACE_WIDTH>> }
\* a glyph as a caller of iter_chars_on_line may hand it in: spacing 1
WideSpaced == { <<500, 100>> }
LineLengths == {800, 1000, 1500, 2000, 3000}
StartLens == {0, 250, 500}

\* line.interpolate(cur_len).x: a length beyond the line gives its last point
Interpolate(length, cur_len) == Clamp(cur_len, 0, length)

\* text_geom.distance(rot)
Distance(text_geom, rot) ==
    LET gaps == { Max(0, Max(rot[1] - t[2], t[1] - rot[2])) : t \in text_geom }
    IN CHOOSE g \in gaps : \A h \in gaps : g <= h

LayoutCall(chars, length, start_len) ==
    [pc |-> "char", chars |-> chars, length |-> length,
     cur_len |-> Max(start_len, MIN_START), k |-> 1, tries |-> 0,
     text_geom |-> {}, emitted |-> <<>>, placed |-> <<>>, exhausted |-> {}]

LayoutInit ==
    /\ MapInit
    /\ NoRenderer
    /\ NoSegment /\ NoCoastlines /\ NoGenerator /\ NoStyleSheet
    /\ lay \in { LayoutCall(chars, length, start_len) :
                   chars \in UNION { [1 .. n -> Glyphs \cup WideSpaced] : n \in 1 .. MaxChars },
                   length \in LineLengths, start_len \in StartLens }

\* "for char, width, spacing in chars": cur_len += spacing
LayoutNextChar ==
    /\ lay.pc = "char"
    /\ lay.k <= Len(lay.chars)
    /\ lay' = [lay EXCEPT !.pc = "try", !.tries = 0,
                          !.cur_len = @ + lay.chars[lay.k][2]]
    /\ UNCHANGED <<mvars, rvars, seg, coast, gen, sheet>>

\* one pass of "for _ in xrange(30)": the glyph is put at cur_len, cur_len
\* moves on by step, and the glyph is yielded if it is far enough from the
\* text so far (or the text so far is empty)
LayoutTry ==
    /\ lay.pc = "try"
    /\ lay.tries < RETRIES
    /\ LET width == lay.chars[lay.k][1]
           spacing == lay.chars[lay.k][2]
           pos == Interpolate(lay.length, lay.cur_len)
           rot == <<pos, pos + width>>
       IN IF lay.text_geom = {} \/ Distance(lay.text_geom, rot) > spacing
          THEN lay' = [lay EXCEPT !.cur_len = @ + STEP,
                                  !.text_geom = @ \cup {rot},
                                  !.emitted = Append(@, lay.k),
                                  !.placed = Append(@, lay.cur_len),
                                  !.pc = "char", !.k = @ + 1]
          ELSE lay' = [lay EXCEPT !.cur_len = @ + STEP, !.tries = @ + 1]
    /\ UNCHANGED <<mvars, rvars, seg, coast, gen, sheet>>

\* the inner loop ran out without a break: the outer loop goes on
LayoutExhausted ==
    /\ lay.pc = "try"
    /\ lay.tries >= RETRIES
    /\ lay' = [lay EXCEPT !.pc = "char", !.k = @ + 1, !.exhausted = @ \cup {lay.k}]
    /\ UNCHANGED <<mvars, rvars, seg, coast, gen, sheet>>

\* the generator is used up
LayoutEnd ==
    /\ lay.pc = "char"
    /\ lay.k > Len(lay.chars)
    /\ lay' = [lay EXCEPT !.pc = "done"]
    /\ UNCHANGED <<mvars, rvars, seg, coast, gen, sheet>>

LayoutNext == LayoutNextChar \/ LayoutTry \/ LayoutExhausted \/ LayoutEnd

SpecLayout == LayoutInit /\ [][LayoutNext]_vars

\* C14: once a glyph has used up its 30 attempts without being accepted, the
\* glyphs emitted before it stay emitted and no glyph that comes later in
\* the text is emitted.
C14_ExhaustedGlyphStopsLabel ==
    /\ [](lay.pc # "idle" =>
            \A f \in lay.exhausted : \A e \in 1 .. Len(lay.emitted) : lay.emitted[e] < f)
    /\ [][(lay.pc # "idle" /\ lay'.pc # "idle") =>
             SubSeq(lay'.emitted, 1, Len(lay.emitted)) = lay.emitted]_vars

(***************************************************************************)
(* scripts/generate_tiles.py: build_tiles and the Generator processes      *)
(*                                                                         *)
(* gen.queue is Generator.queue (the map_infos not yet taken),             *)
(* gen.unfinished its count of tasks put and not yet marked done,          *)
(* gen.stop is Generator.stop, gen.main the position of build_tiles and    *)
(* gen.worker[w] the position of Generator w with the tile it renders.     *)
(***************************************************************************)
\* tiles iter_tile_maps yields
MaxTiles == 3
\* process_number
MaxWorkers == 2

Tiles == 1 .. MaxTiles
Workers == 1 .. MaxWorkers

AtLoop == [pc |-> "loop", tile |-> 0]

GeneratorInit ==
    /\ MapInit
    /\ NoRenderer
    /\ NoSegment /\ NoLayout /\ NoCoastlines /\ NoStyleSheet
    /\ \E bad \in SUBSET Tiles :
          gen = [pc |-> "running", main |-> "put", next |-> 1, queue |-> <<>>,
                 unfinished |-> 0, stop |-> FALSE, bad |-> bad, built |-> {},
                 worker |-> [w \in Workers |-> AtLoop]]

\* build_tiles: Generator.queue.put(map_info) for the next tile of iter_tile_maps
MainPut ==
    /\ gen.pc = "running" /\ gen.main = "put"
    /\ gen.next <= MaxTiles
    /\ gen' = [gen EXCEPT !.queue = Append(@, gen.next), !.unfinished = @ + 1,
                          !.next = @ + 1]
    /\ UNCHANGED <<mvars, rvars, seg, lay, coast, sheet>>

\* build_tiles: the loop over iter_tile_maps is over, generator.queue.join()
MainPutsDone ==
    /\ gen.pc = "running" /\ gen.main = "put"
    /\ gen.next > MaxTiles
    /\ gen' = [gen EXCEPT !.main = "queue_join"]
    /\ UNCHANGED <<mvars, rvars, seg, lay, coast, sheet>>

\* (mutation: Generator.stop.set() without generator.queue.join())
MainStop_NoJoin ==
    /\ gen.pc = "running" /\ gen.main = "queue_join"
    /\ gen' = [gen EXCEPT !.main = "join", !.stop = TRUE]
    /\ UNCHANGED <<mvars, rvars, seg, lay, coast, sheet>>

\* queue.join() returns once every task put was marked done; Generator.stop.set()
MainStop ==
    /\ gen.pc = "running" /\ gen.main = "queue_join"
    /\ gen.unfinished = 0
    /\ gen' = [gen EXCEPT !.main = "join", !.stop = TRUE]
    /\ UNCHANGED <<mvars, rvars, seg, lay, coast, sheet>>

\* "for generator in generators: generator.join()" returns when no process is alive
MainJoined ==
    /\ gen.pc = "running" /\ gen.main = "join"
    /\ \A w \in Workers : gen.worker[w].pc \in {"exited", "crashed"}
    /\ gen' = [gen EXCEPT !.main = "done"]
    /\ UNCHANGED <<mvars, rvars, seg, lay, coast, sheet>>

\* Generator.run: stop is not set and self.queue.get(False, 1) gives a map_info
\* (on Queue.Empty the worker passes and comes round again, changing nothing)
WorkerGet(w) ==
    /\ gen.pc = "running"
    /\ gen.worker[w].pc = "loop"
    /\ ~gen.stop
    /\ gen.queue # <<>>
    /\ gen' = [gen EXCEPT !.queue = Tail(@),
                          !.worker[w] = [pc |-> "render", tile |-> Head(gen.queue)]]
    /\ UNCHANGED <<mvars, rvars, seg, lay, coast, sheet>>

\* the else branch runs through: Map(...), renderer.run(), map_obj.write(),
\* self.queue.task_done()
WorkerBuilt(w) ==
    /\ gen.pc = "running"
    /\ gen.worker[w].pc = "render"
    /\ gen.worker[w].tile \notin gen.bad
    /\ gen' = [gen EXCEPT !.unfinished = @ - 1, !.built = @ \cup {gen.worker[w].tile},
                          !.worker[w] = AtLoop]
    /\ UNCHANGED <<mvars, rvars, seg, lay, coast, sheet>>

\* Map(...), renderer.run() or map_obj.write() raises: nothing in run()
\* catches it, the exception leaves run() and the process ends
WorkerRaises(w) ==
    /\ gen.pc = "running"
    /\ gen.worker[w].pc = "render"
    /\ gen.worker[w].tile \in gen.bad
    /\ gen' = [gen EXCEPT !.worker[w] = [pc |-> "crashed", tile |-> gen.worker[w].tile]]
    /\ UNCHANGED <<mvars, rvars, seg, lay, coast, sheet>>

\* "while not self.stop.is_set()" finds the event set: run() returns
WorkerExit(w) ==
    /\ gen.pc = "running"
    /\ gen.worker[w].pc = "loop"
    /\ gen.stop
    /\ gen' = [gen EXCEPT !.worker[w] = [pc |-> "exited", tile |-> 0]]
    /\ UNCHANGED <<mvars, rvars, seg, lay, coast, sheet>>

GeneratorNext ==
    \/ MainPut
    \/ MainPutsDone
    \/ MainStop
    \/ MainJoined
    \/ \E w \in Workers : WorkerGet(w)
    \/ \E w \in Workers : WorkerBuilt(w)
    \/ \E w \in Workers : WorkerRaises(w)
    \/ \E w \in Workers : WorkerExit(w)

SpecGenerator == GeneratorInit /\ [][GeneratorNext]_vars

\* C17: a render that raises inside a worker does not end the worker
\* process: the job is still marked done on the queue (every task taken
\* and no longer being rendered was marked done) and the worker is back at
\* its loop to take the next job.
C17_FailedRenderIsConfined ==
    gen.pc = "running" =>
        /\ \A w \in Workers : gen.worker[w].pc # "crashed"
        /\ gen.unfinished = Len(gen.queue)
                + Cardinality({ w \in Workers : gen.worker[w].pc = "render" })

(***************************************************************************)
(* mapython.style.StyleSheet.update, fed by parse_setting                  *)
(*                                                                         *)
(* sheet.heap holds the attrs dicts (a dict is known by its index, so that *)
(* two styles holding the same dict are told from two styles holding equal *)
(* dicts), sheet.styles[level, key] the index of the attrs of the Style    *)
(* kept for that level, geometry type and tag/value (0: none), and         *)
(* sheet.last what the updates so far have set (a record of the calls, not *)
(* a part of the program).                                                 *)
(***************************************************************************)
\* the highest level of ZOOMLEVELS
MaxLevel == 2
\* level settings handed to parse_setting
MaxSettings == 2

Levels == 0 .. MaxLevel

\* ZOOMLEVELS of tests/test_style.py: 0: [0, 1], 1: [1, 2], 2: [2, 4]
zoomlevels == [level \in Levels |-> IF level = 0 THEN <<0, 1>>
                                    ELSE <<2 ^ (level - 1), 2 ^ level>>]

NoLevel == 0 - 1

\* StyleSheet.get_level: the level whose scales hold the scale, or None
get_level(scale) ==
    LET found == { level \in Levels :
                     zoomlevels[level][1] <= scale /\ scale < zoomlevels[level][2] }
    IN IF found = {} THEN NoLevel ELSE CHOOSE level \in found : TRUE

\* (geom_type, tag_value) of a style
StyleKeys == { <<"point", "place=city">>, <<"line", "highway=motorway">> }
AttrKeys == {"font-size", "text"}
\* an attrs dict: 0 stands for a key the dict does not hold
Unset == 0
AttrDicts == { [k \in AttrKeys |-> IF k = "font-size" THEN f ELSE t] :
                 f \in {Unset, 7, 12}, t \in {Unset, 1} }
NoAttrs == [k \in AttrKeys |-> Unset]
\* raw levels "all", "0", "1, 2"
RawLevels == { Levels, {0}, {1, MaxLevel} }

\* (mutation: existing.attrs = style.attrs)
DictUpdate_Replaces(old, new) == new

\* dict.update: the keys of new overwrite, the other keys of old are kept
DictUpdate(old, new) == [k \in AttrKeys |-> IF new[k] # Unset THEN new[k] ELSE old[k]]

\* StyleSheet.get(scale, geom_type, tag_value): the attrs index of the style, or 0
StyleGet(styles, scale, key) ==
    IF get_level(scale) = NoLevel THEN 0 ELSE styles[<<get_level(scale), key>>]

RECURSIVE SetToSeq(_)
SetToSeq(set) ==
    IF set = {} THEN <<>>
    ELSE LET least == CHOOSE a \in set : \A b \in set : a <= b
         IN <<least>> \o SetToSeq(set \ {least})

SheetInit ==
    /\ MapInit
    /\ NoRenderer
    /\ NoSegment /\ NoLayout /\ NoCoastlines /\ NoGenerator
    /\ sheet = [pc |-> "ready", heap |-> <<>>,
                styles |-> [c \in Levels \X StyleKeys |-> 0],
                pending |-> <<>>, settings |-> 0,
                last |-> [c \in Levels \X StyleKeys |-> NoAttrs]]

\* parse_setting for one level setting: a Style per level, each with its own
\* attrs.copy()
ParseSetting(key, levels, attrs) ==
    /\ sheet.pc = "ready"
    /\ sheet.pending = <<>>
    /\ sheet.settings < MaxSettings
    /\ LET order == SetToSeq(levels)
           n == Len(sheet.heap)
       IN sheet' = [sheet EXCEPT
              !.heap = @ \o [i \in 1 .. Len(order) |-> attrs],
              !.pending = [i \in 1 .. Len(order) |->
                             [level |-> order[i], key |-> key, attrs |-> n + i]],
              !.settings = @ + 1]
    /\ UNCHANGED <<mvars, rvars, seg, lay, coast, gen>>

\* StyleSheet.update(style) for the next style parse_setting yields
Update ==
    /\ sheet.pc = "ready"
    /\ sheet.pending # <<>>
    /\ LET style == Head(sheet.pending)
           slot == <<style.level, style.key>>
           existing == StyleGet(sheet.styles, zoomlevels[style.level][1], style.key)
       IN sheet' = [sheet EXCEPT
              !.pending = Tail(@),
              !.heap = IF existing # 0
                       THEN [@ EXCEPT ![existing] =
                                DictUpdate(@, sheet.heap[style.attrs])]
                       ELSE @,
              !.styles = IF existing # 0 THEN @ ELSE [@ EXCEPT ![slot] = style.attrs],
              !.last = [@ EXCEPT ![slot] =
                          [k \in AttrKeys |-> IF sheet.heap[style.attrs][k] # Unset
                                              THEN sheet.heap[style.attrs][k]
                                              ELSE @[k]]]]
    /\ UNCHANGED <<mvars, rvars, seg, lay, coast, gen>>

SheetNext ==
    \/ \E key \in StyleKeys, levels \in RawLevels, attrs \in AttrDicts :
          ParseSetting(key, levels, attrs)
    \/ Update

SpecSheet == SheetInit /\ [][SheetNext]_vars

\* what get() gives for a scale of the level: the attrs of the style, or no attrs
Got(level, key) ==
    LET at == StyleGet(sheet.styles, zoomlevels[level][1], key)
    IN IF at = 0 THEN NoAttrs ELSE sheet.heap[at]

\* C18: after any sequence of updates, get() returns for every level,
\* geometry type, tag/value and attribute the value the last update of
\* that level set for it (a style is added when none exists, merged
\* otherwise, and the styles of other levels are left as they were).
C18_LastUpdateWins ==
    sheet.pc = "ready" =>
        \A level \in Levels, key \in StyleKeys : Got(level, key) = sheet.last[<<level, key>>]

\* 'all' set font-size 7 and a text, a later setting of levels 1, 2 set
\* font-size 12: level 0 keeps 7, level 1 has 12 and keeps the text
C18_Witness ==
    /\ sheet.pc = "ready"
    /\ sheet.pending = <<>>
    /\ Got(0, <<"point", "place=city">>)["font-size"] = 7
    /\ Got(1, <<"point", "place=city">>)["font-size"] = 12
    /\ Got(1, <<"point", "place=city">>)["text"] = 1

(***************************************************************************)
(* mapython.utils.close_coastlines                                         *)
(*                                                                         *)
(* Points are <<x, y>> on the integer lattice, a line is the sequence of   *)
(* its coords.  An input line is given as what shapely reports of it:      *)
(* whether it is a ring, the number of points in which it meets the        *)
(* exterior of the bbox, and its pieces inside the bbox.  No two input     *)
(* lines share an end point, so that linemerge leaves them as they are.    *)
(***************************************************************************)
\* input lines of one call
MaxFragments == 2
\* corners one ring may be given before the model stops following the walk
MaxAdvances == 16

\* the bbox of the map
CoastBox == box(0, 0, 8, 8)
centroid == << (CoastBox[1] + CoastBox[3]) \div 2, (CoastBox[2] + CoastBox[4]) \div 2 >>

\* the ends of blines_init, clockwise from the left top corner (0-based)
Corner(k) ==
    CASE k % 4 = 0 -> <<CoastBox[1], CoastBox[4]>>
      [] k % 4 = 1 -> <<CoastBox[3], CoastBox[4]>>
      [] k % 4 = 2 -> <<CoastBox[3], CoastBox[2]>>
      [] k % 4 = 3 -> <<CoastBox[1], CoastBox[2]>>

\* blines_init[k] as <<first coord, last coord>>
blines_init(k) == << Corner(k), Corner(k + 1) >>

\* bline.intersects(point)
OnBline(bline, pt) ==
    /\ Min(bline[1][1], bline[2][1]) <= pt[1] /\ pt[1] <= Max(bline[1][1], bline[2][1])
    /\ Min(bline[1][2], bline[2][2]) <= pt[2] /\ pt[2] <= Max(bline[1][2], bline[2][2])

\* point_radians(pt, centroid) lies in (0, pi]: atan2 is positive
UpperHalf(pt) ==
    \/ pt[2] - centroid[2] > 0
    \/ pt[2] - centroid[2] = 0 /\ pt[1] - centroid[1] < 0

\* point_radians(a, centroid) < point_radians(b, centroid), the radians
\* running in (0, 2 pi] counterclockwise from the direction of +x
RadLess(a, b) ==
    IF UpperHalf(a) # UpperHalf(b) THEN UpperHalf(a)
    ELSE (a[1] - centroid[1]) * (b[2] - centroid[2])
             - (a[2] - centroid[2]) * (b[1] - centroid[1]) > 0

RadLeq(a, b) == ~RadLess(b, a)

\* what shapely reports of an input line
CoastLine(is_ring, crossings, pieces) ==
    [is_ring |-> is_ring, crossings |-> crossings, pieces |-> pieces]

CoastLines ==
    { CoastLine(FALSE, 2, << << <<6, 0>>, <<6, 8>> >> >>),
      CoastLine(FALSE, 2, << << <<2, 8>>, <<2, 0>> >> >>),
      CoastLine(FALSE, 2, << << <<0, 2>>, <<8, 2>> >> >>),
      CoastLine(FALSE, 2, << << <<8, 6>>, <<0, 6>> >> >>),
      CoastLine(FALSE, 2, << << <<0, 5>>, <<3, 5>>, <<3, 8>> >> >>),
      CoastLine(FALSE, 1, << << <<5, 0>>, <<5, 1>> >> >>),
      CoastLine(FALSE, 2, << << <<5, 5>>, <<8, 5>> >>, << <<8, 3>>, <<5, 3>> >> >>),
      CoastLine(FALSE, 3, << << <<1, 0>>, <<1, 1>>, <<0, 1>> >>, << <<0, 3>>, <<1, 3>> >> >>),
      CoastLine(FALSE, 0, << << <<4, 6>>, <<4, 7>> >> >>),
      CoastLine(TRUE, 0, << << <<3, 3>>, <<4, 3>>, <<3, 4>>, <<3, 3>> >> >>) }

\* "for line in merged": the rings, which are yielded as they are
RingsOf(merged) ==
    LET rings == SelectSeq(merged, LAMBDA l : l.is_ring)
    IN [i \in 1 .. Len(rings) |-> rings[i].pieces[1]]

\* (mutation: every open line is taken into the closing)
OpenPieces_All(merged) ==
    Concat([i \in 1 .. Len(merged) |->
               IF ~merged[i].is_ring THEN merged[i].pieces ELSE <<>>])

\* "for line in merged": the pieces of the open lines that meet the exterior
\* of the bbox in an even number of points
OpenPieces(merged) ==
    Concat([i \in 1 .. Len(merged) |->
               IF ~merged[i].is_ring /\ merged[i].crossings > 1
                     /\ merged[i].crossings % 2 = 0
               THEN merged[i].pieces ELSE <<>>])

RECURSIVE SortByAngle(_)
\* sorted(lines, key=lambda l: l.angle, reverse=True), the angle that of the
\* first coord; lines of equal angle keep their order
SortByAngle(lines) ==
    IF lines = <<>> THEN <<>>
    ELSE LET rest == SortByAngle(SubSeq(lines, 1, Len(lines) - 1))
             l == lines[Len(lines)]
             before == SelectSeq(rest, LAMBDA r : RadLeq(l[1], r[1]))
             after == SelectSeq(rest, LAMBDA r : RadLess(r[1], l[1]))
         IN before \o <<l>> \o after

\* "for bline in blines: if bline.intersects(prevend): break" on the deque
\* rotated rot times: the first bline holding the point, or the last bline
FirstBline(pt, rot) ==
    LET holding == { j \in 0 .. 3 : OnBline(blines_init(rot + j), pt) }
    IN IF holding = {} THEN blines_init(rot + 3)
       ELSE blines_init(rot + (CHOOSE j \in holding : \A i \in holding : j <= i))

\* Polygon(area).exterior: the ring is closed
Exterior(area) == IF area[1] = area[Len(area)] THEN area ELSE Append(area, area[1])

CoastCall(input) ==
    [pc |-> "pop", input |-> input,
     yielded |-> RingsOf(input), lines |-> SortByAngle(OpenPieces(input)),
     areas |-> <<>>, area |-> <<>>, end |-> <<0, 0>>, prevend |-> <<0, 0>>,
     rot |-> 0, advances |-> 0, corners |-> <<>>]

CoastInit ==
    /\ MapInit
    /\ NoRenderer
    /\ NoSegment /\ NoLayout /\ NoGenerator /\ NoStyleSheet
    /\ coast \in { CoastCall(input) :
                     input \in { q \in UNION { [1 .. n -> CoastLines] : n \in 1 .. MaxFragments } :
                                  \A i, j \in 1 .. Len(q) : i # j => q[i] # q[j] } }

\* "while lines": cur = lines.pop(), the ring starts with its coords reversed
CoastPop ==
    /\ coast.pc = "pop"
    /\ coast.lines # <<>>
    /\ LET cur == coast.lines[Len(coast.lines)]
       IN coast' = [coast EXCEPT !.pc = "walk",
                                 !.lines = SubSeq(@, 1, Len(@) - 1),
                                 !.area = Reverse(cur),
                                 !.end = cur[Len(cur)],
                                 !.prevend = cur[1],
                                 !.rot = 0, !.advances = 0]
    /\ UNCHANGED <<mvars, rvars, seg, lay, gen, sheet>>

\* one pass of "while True"
CoastWalk ==
    /\ coast.pc = "walk"
    /\ coast.advances < MaxAdvances
    /\ LET bline == FirstBline(coast.prevend, coast.rot)
           next == { i \in 1 .. Len(coast.lines) :
                       LET lp == coast.lines[i][Len(coast.lines[i])]
                       IN OnBline(bline, lp) /\ RadLeq(lp, coast.prevend) }
           lnext == next # {}
           i == CHOOSE i \in next : \A j \in next : i <= j
           area == IF lnext THEN coast.area \o Reverse(coast.lines[i]) ELSE coast.area
           lines == IF lnext
                    THEN SubSeq(coast.lines, 1, i - 1)
                             \o SubSeq(coast.lines, i + 1, Len(coast.lines))
                    ELSE coast.lines
           prevend == IF lnext THEN coast.lines[i][1] ELSE coast.prevend
       IN IF OnBline(bline, coast.end) /\ RadLeq(coast.end, coast.prevend)
          THEN coast' = [coast EXCEPT !.pc = "pop", !.lines = lines,
                                      !.areas = Append(@, area), !.area = <<>>,
                                      !.corners = Append(@, coast.advances)]
          ELSE IF lnext
          THEN coast' = [coast EXCEPT !.lines = lines, !.area = area,
                                      !.prevend = prevend]
          ELSE coast' = [coast EXCEPT !.area = Append(area, bline[2]),
                                      !.prevend = bline[2],
                                      !.rot = (@ + 1) % 4,
                                      !.advances = @ + 1]
    /\ UNCHANGED <<mvars, rvars, seg, lay, gen, sheet>>

\* "for area in areas: yield Polygon(area).exterior"
CoastYield ==
    /\ coast.pc = "pop"
    /\ coast.lines = <<>>
    /\ coast' = [coast EXCEPT !.pc = "done",
                              !.yielded = @ \o [i \in 1 .. Len(coast.areas) |->
                                                  Exterior(coast.areas[i])]]
    /\ UNCHANGED <<mvars, rvars, seg, lay, gen, sheet>>

CoastNext == CoastPop \/ CoastWalk \/ CoastYield

SpecCoast == CoastInit /\ [][CoastNext]_vars

(***************************************************************************)
(* Properties of close_coastlines                                          *)
(***************************************************************************)
\* the index of the first bline of blines_init that holds the point
EdgeOf(pt) == CHOOSE k \in 0 .. 3 : OnBline(blines_init(k), pt) /\
                  \A j \in 0 .. 3 : OnBline(blines_init(j), pt) => k <= j

OnBoundary(pt) == \E k \in 0 .. 3 : OnBline(blines_init(k), pt)

\* the way along the exterior of the bbox, clockwise from the left top corner
ClockPos(pt) ==
    LET w == CoastBox[3] - CoastBox[1]
        h == CoastBox[4] - CoastBox[2]
    IN CASE EdgeOf(pt) = 0 -> pt[1] - CoastBox[1]
         [] EdgeOf(pt) = 1 -> w + (CoastBox[4] - pt[2])
         [] EdgeOf(pt) = 2 -> w + h + (CoastBox[3] - pt[1])
         [] EdgeOf(pt) = 3 -> w + h + w + (pt[2] - CoastBox[2])

ClockDist(a, b) ==
    (ClockPos(b) - ClockPos(a)) % (2 * (CoastBox[3] - CoastBox[1] + CoastBox[4] - CoastBox[2]))

\* an open fragment that crosses the bbox from one edge to the opposite one
Crossing(line) ==
    /\ ~line.is_ring /\ line.crossings = 2 /\ Len(line.pieces) = 1
    /\ LET l == line.pieces[1]
       IN /\ OnBoundary(l[1]) /\ OnBoundary(l[Len(l)])
          /\ (EdgeOf(l[1]) - EdgeOf(l[Len(l)])) % 4 = 2

\* two crossing fragments in angular order: clockwise from the start of the
\* one come the end of the other, its start, and the end of the first
TwoOrderedFragments(input) ==
    /\ Len(input) = 2
    /\ Crossing(input[1]) /\ Crossing(input[2])
    /\ \E i, j \in 1 .. 2 :
          LET a == input[i].pieces[1]
              b == input[j].pieces[1]
          IN /\ i # j
             /\ ClockDist(a[1], b[Len(b)]) < ClockDist(a[1], b[1])
             /\ ClockDist(a[1], b[1]) < ClockDist(a[1], a[Len(a)])

\* C15: of two open fragments that each cross the canvas between two opposite
\* edges and lie in angular order, close_coastlines makes exactly one closed
\* ring: the first area it closes holds both fragments, and the ring yielded
\* has the points of the fragments and the corners inserted, its first point
\* repeated as its last.
C15_TwoFragmentsOneRing ==
    TwoOrderedFragments(coast.input) =>
        /\ Len(coast.areas) > 0 =>
              /\ Len(coast.areas) = 1
              /\ coast.lines = <<>>
              /\ coast.pc \in {"pop", "done"}
        /\ coast.pc = "done" =>
              /\ Len(coast.yielded) = 1
              /\ coast.yielded[1][1] = coast.yielded[1][Len(coast.yielded[1])]
              /\ Len(coast.yielded[1]) =
                     Len(coast.input[1].pieces[1]) + Len(coast.input[2].pieces[1])
                         + coast.corners[1] + 1

\* the bound on the corners given to one ring: twice the number of edges
AdvanceLimit == 2 * 4

\* C16: close_coastlines terminates: no ring is given more than a small
\* multiple of four corners, a ring that has not closed by then being
\* abandoned.
C16_AdvancesAreBounded == coast.advances <= AdvanceLimit

(***************************************************************************)
(* Properties of the order and the frame of draw_text and draw_image       *)
(***************************************************************************)
\* what a step has added to oplog
Added == (Len(oplog) + 1) .. Len(oplog')

\* C21: when draw_text or draw_image accepts a placement, the footprint is
\* united into conflict_area before any part of the annotation (icon, halo,
\* fill) is painted.
C21_ReservedBeforePainted ==
    [][(pc = "returned" /\ frame.op \in {"draw_text", "draw_image"}
           /\ \E k \in Added : oplog'[k].op = "union") =>
          \A k \in Added :
              oplog'[k].op \in PaintOps =>
                  \E j \in Added : j < k /\ oplog'[j].op = "union"]_vars

\* C22: when draw_text rejects an annotation (the text is not drawn), nothing
\* of it has been painted and conflict_area is unchanged.
C22_RejectedLeavesNoTrace ==
    [][(pc = "returned" /\ frame.op = "draw_text"
           /\ ~ \E k \in Added : oplog'[k].op = "fill_text") =>
          oplog' = oplog /\ conflict_area' = conflict_area]_vars

(***************************************************************************)
(* Properties of linestring_text_optimal_segment                           *)
(***************************************************************************)
\* the start indices from which a run reaches 1.2 x the text width
Starts(segs, width) ==
    { s \in 0 .. (Len(segs) - 1) : \E e \in (s + 1) .. Len(segs) :
                                      10 * SumLens(segs, s, e) >= 12 * width }

\* the first node at which the run from s reaches 1.2 x the text width
FirstEnd(segs, s, width) ==
    CHOOSE e \in (s + 1) .. Len(segs) :
        /\ 10 * SumLens(segs, s, e) >= 12 * width
        /\ \A f \in (s + 1) .. (e - 1) : 10 * SumLens(segs, s, f) < 12 * width

\* the sum of the absolute bearing changes at the nodes s + 1 .. e - 1
Bend(segs, s, e) == SumRads(segs, s + 1, e)

\* the path before s against the path after e
OffCentre(segs, s, e) == Abs(SumLens(segs, 0, s) - SumLens(segs, e, Len(segs)))

\* C23: a returned (start, end) has 0 <= start < end <= last index, is at
\* least 1.2 x width long, bends by no more than max_rad and by no more than
\* the candidate of any start index, and no candidate of the same bend lies
\* nearer to the middle of the path.
C23_ReturnedSegmentIsOptimal ==
    (seg.pc \in {"returned", "done"} /\ seg.ret # None) =>
        LET segs == seg.segs
            start == seg.ret.start
            end == seg.ret.end
        IN /\ 0 <= start /\ start < end /\ end <= Len(segs)
           /\ 10 * SumLens(segs, start, end) >= 12 * seg.width
           /\ Bend(segs, start, end) <= MAX_RAD
           /\ \A s \in Starts(segs, seg.width) :
                 LET e == FirstEnd(segs, s, seg.width)
                 IN /\ Bend(segs, start, end) <= Bend(segs, s, e)
                    /\ Bend(segs, s, e) = Bend(segs, start, end) =>
                          OffCentre(segs, start, end) <= OffCentre(segs, s, e)

C23_Witness ==
    /\ seg.pc = "returned"
    /\ seg.ret # None
    /\ seg.ret.start > 0
    /\ Cardinality(seg.rad_sums) > 1
    /\ \E s \in Starts(seg.segs, seg.width) :
          Bend(seg.segs, s, FirstEnd(seg.segs, s, seg.width))
              > Bend(seg.segs, seg.ret.start, seg.ret.end)

(***************************************************************************)
(* Properties of iter_chars_on_line                                        *)
(***************************************************************************)
\* the gap between the glyph put at the cursor and the glyphs accepted so far
GapAtCursor ==
    LET pos == Interpolate(lay.length, lay.cur_len)
        lo == pos
        hi == pos + lay.chars[lay.k][1]
        gaps == { Max(0, Max(lo - t[2], t[1] - hi)) : t \in lay.text_geom }
    IN CHOOSE g \in gaps : \A h \in gaps : g <= h

\* C24: an attempt emits its glyph if and only if no glyph has been accepted
\* yet or the glyph is at least its spacing away from the glyphs accepted; a
\* rejected attempt moves the cursor on by the step; glyphs are emitted in
\* text order at cursor positions that do not decrease and are not before
\* max(start_len, 1).
C24_AcceptedAtFirstFarEnoughAttempt ==
    /\ [][(lay.pc = "try" /\ lay.tries < RETRIES) =>
             IF lay.text_geom = {} \/ GapAtCursor >= lay.chars[lay.k][2]
             THEN lay'.emitted = Append(lay.emitted, lay.k)
             ELSE /\ lay'.emitted = lay.emitted
                  /\ lay'.cur_len = lay.cur_len + STEP]_vars
    /\ [](lay.pc # "idle" =>
            /\ \A i, j \in 1 .. Len(lay.emitted) :
                  i < j => /\ lay.emitted[i] < lay.emitted[j]
                           /\ lay.placed[i] <= lay.placed[j]
            /\ \A i \in 1 .. Len(lay.placed) : lay.placed[i] >= MIN_START)

(***************************************************************************)
(* Properties of the lines close_coastlines takes into the closing         *)
(***************************************************************************)
Range(q) == { q[i] : i \in 1 .. Len(q) }

\* the points of the pieces of an input line
PointsOf(line) == UNION { Range(piece) : piece \in Range(line.pieces) }

\* the points the closing holds: in the lines waiting, in the ring being
\* walked, in the areas closed
ClosingPoints ==
    UNION { Range(l) : l \in Range(coast.lines) } \cup Range(coast.area)
        \cup UNION { Range(a) : a \in Range(coast.areas) }

\* the rings yielded from the closing (the input rings come first)
ClosedRings ==
    { coast.yielded[i] : i \in (Len(RingsOf(coast.input)) + 1) .. Len(coast.yielded) }

\* an open line that meets the boundary in an odd number of points, or in none
Incomplete(line) == ~line.is_ring /\ (line.crossings % 2 = 1 \/ line.crossings = 0)

\* C25: only pieces of open lines with an even number of boundary
\* intersections are taken into the closing walk; no point of a line with an
\* odd number of intersections, or with none, is in the walk or in a ring it
\* yields.
C25_IncompleteLinesAreDiscarded ==
    coast.pc # "idle" =>
        /\ \A l \in Range(coast.lines) :
              \E i \in 1 .. Len(coast.input) :
                  /\ ~coast.input[i].is_ring
                  /\ coast.input[i].crossings % 2 = 0
                  /\ l \in Range(coast.input[i].pieces)
        /\ \A i \in 1 .. Len(coast.input) :
              Incomplete(coast.input[i]) =>
                  /\ PointsOf(coast.input[i]) \cap ClosingPoints = {}
                  /\ \A ring \in ClosedRings : PointsOf(coast.input[i]) \cap Range(ring) = {}

C25_Witness ==
    /\ coast.pc = "done"
    /\ ClosedRings # {}
    /\ \E i \in 1 .. Len(coast.input) :
          Incomplete(coast.input[i]) /\ coast.input[i].crossings = 3

(***************************************************************************)
(* Properties of the splice of close_coastlines                            *)
(***************************************************************************)
\* the entry point of a fragment: its last coord, met first by the
\* clockwise walk
Entry(line) == line[Len(line)]

\* x comes before q on the clockwise way that starts at p
Before(p, x, q) == ClockDist(p, x) < ClockDist(p, q)

\* C26: a fragment is spliced into the ring only if its entry point is the
\* next one clockwise after the pending end: neither the entry point of
\* another remaining fragment nor the closing point of the ring comes before
\* it on the clockwise way from the pending end.
C26_SplicedFragmentIsNextClockwise ==
    [][(coast.pc = "walk" /\ OnBoundary(coast.prevend)) =>
          \A i \in 1 .. Len(coast.lines) :
              (coast'.lines = SubSeq(coast.lines, 1, i - 1)
                                 \o SubSeq(coast.lines, i + 1, Len(coast.lines))) =>
                  /\ ~(OnBoundary(coast.end)
                         /\ Before(coast.prevend, coast.end, Entry(coast.lines[i])))
                  /\ \A j \in 1 .. Len(coast.lines) :
                        ~(j # i /\ OnBoundary(Entry(coast.lines[j]))
                            /\ Before(coast.prevend, Entry(coast.lines[j]),
                                      Entry(coast.lines[i])))]_vars

(***************************************************************************)
(* Properties of build_tiles and its workers                               *)
(***************************************************************************)
\* the tiles the workers are rendering
Rendering == { gen.worker[w].tile : w \in { v \in Workers : gen.worker[v].pc = "render" } }

SpecGeneratorFair ==
    /\ GeneratorInit
    /\ [][GeneratorNext]_vars
    /\ WF_vars(MainPut) /\ WF_vars(MainPutsDone) /\ WF_vars(MainStop) /\ WF_vars(MainJoined)
    /\ \A w \in Workers :
          /\ WF_vars(WorkerGet(w)) /\ WF_vars(WorkerBuilt(w))
          /\ WF_vars(WorkerRaises(w)) /\ WF_vars(WorkerExit(w))

\* C28: build_tiles eventually returns: every job is marked done,
\* queue.join() unblocks, the stop flag is set and every worker is joined.
C28_BuildTilesReturns == <>(gen.pc = "running" /\ gen.main = "done")

\* without a render that raises, build_tiles does return
ReturnsIfNoRenderRaises == (gen.bad = {}) => <>(gen.main = "done")

(***************************************************************************)
(* Properties of Map.draw_text_on_line                                     *)
(***************************************************************************)
\* what the line loses: the band along the boundary and the reserved region
Removed(height) == BoundaryBand(height) \cup AllBoxes(conflict_area)

\* where a free stretch of the line from lo to hi can begin or end: at an end
\* of the line or at a side of a box taken away
StretchEnds(lo, hi, removed) ==
    {lo, hi} \cup { e \in { b[1] : b \in removed } \cup { b[3] : b \in removed } :
                      lo < e /\ e < hi }

\* the stretch [a, b] of the line at height y is free
FreeStretch(a, b, y, removed) == \A k \in a .. (b - 1) : FreeSegment(k, y, removed)

\* C29: draw_text_on_line adds the swept area of the label (the offset line
\* buffered by text height + CONFLICT_MARGIN) to conflict_area if and only
\* if a glyph of the label was drawn; where the label is dropped (empty
\* text, nothing of the path left, no stretch of the path as long as 1.2 x
\* width, no glyph with an outline) conflict_area is unchanged.
C29_SweptAreaIffGlyphDrawn ==
    [][\A ln \in TextLines, t \in LineTexts :
          DrawTextOnLine(ln, t) =>
              LET lo == Min(ln[1], ln[3])
                  hi == Max(ln[1], ln[3])
                  removed == Removed(t[3])
                  drawn == \E k \in Added : oplog'[k].op = "fill_text"
                  reserved == \E k \in Added : oplog'[k].op = "union"
                  ends == StretchEnds(lo, hi, removed)
                  fits == \E a, b \in ends :
                              /\ a < b /\ 10 * (b - a) >= 12 * t[2]
                              /\ FreeStretch(a, b, ln[2], removed)
              IN /\ drawn <=> reserved
                 /\ ~reserved => conflict_area' = conflict_area
                 /\ reserved =>
                       \E a, b \in ends :
                           /\ a < b /\ FreeStretch(a, b, ln[2], removed)
                           /\ conflict_area' =
                                 UnionGeom(conflict_area,
                                           Buffer(box(a, ln[2] + t[4], b, ln[2] + t[4]),
                                                  t[3] + CONFLICT_MARGIN))
                 /\ (t[1] = 0 \/ t[5] = 0 \/ ~fits) => ~reserved]_vars

\* a label was drawn along a line that a reserved region had cut in two
C29_Witness ==
    /\ pc = "idle"
    /\ Len(oplog) = 4
    /\ oplog[1] = Logged("union", Buffer(box(103, 103, 117, 107), 3))
    /\ oplog[2].op = "union"
    /\ oplog[2].box[2] < 100 /\ 100 < oplog[2].box[4]
    /\ oplog[4].op = "fill_text"

(***************************************************************************)
(* Properties of the iterations of Map.find_free_position                  *)
(***************************************************************************)
\* an iteration of this call has left the position unchanged
Stuck == ffp.shifts < ffp.i

\* C30: from one iteration of find_free_position to the next the area the
\* candidate shares with conflict_area never grows, and it shrinks whenever
\* the position changes; after an iteration that left the position
\* unchanged no later iteration changes it and the call returns None;
\* find_free_position does not change conflict_area.
C30_SharedAreaNeverGrows ==
    /\ [][pc = "ffp" =>
             /\ conflict_area' = conflict_area
             /\ pc' = "ffp" =>
                   /\ IntersectionArea(ffp'.polygon, conflict_area)
                          <= IntersectionArea(ffp.polygon, conflict_area)
                   /\ (ffp'.polygon # ffp.polygon \/ ffp'.x # ffp.x \/ ffp'.y # ffp.y) =>
                          IntersectionArea(ffp'.polygon, conflict_area)
                              < IntersectionArea(ffp.polygon, conflict_area)
             /\ Stuck => /\ ffp'.polygon = ffp.polygon
                         /\ ffp'.x = ffp.x /\ ffp'.y = ffp.y
                         /\ pc' = "returned" => ffp'.ret = None]_vars
    /\ []((pc = "returned" /\ Stuck) => ffp.ret = None)

\* a call that moved the candidate, then could not move it further, and
\* returned None
C30_Witness ==
    /\ pc = "returned"
    /\ ffp.ret = None
    /\ ffp.shifts > 0
    /\ ffp.i > ffp.shifts + 1
====
